---- MODULE Spec2Model ----
(***************************************************************************)
(* Session and profile synchronisation of DreamWeaver.                     *)
(*                                                                         *)
(*   src/services/authService.ts   onAuthStateChanged, signUp, logIn,      *)
(*                                 logOut, getDreamsForUser,               *)
(*                                 saveDreamForUser, saveAllDreamsForUser, *)
(*                                 addChatMessageToDream                   *)
(*   src/components/AuthView.tsx   mockAuth, mockFirestore, mockDb, the    *)
(*                                 choice between the mock and Firebase,   *)
(*                                 dreams and users documents, AuthView    *)
(*   src/functions/index.js        stripeWebhook,                          *)
(*                                 createStripeCheckoutSession             *)
(*                                                                         *)
(* `configured` is firebaseConfig.apiKey being set: when it is FALSE, auth *)
(* and db are mockAuth and mockFirestore, whose promises settle as         *)
(* microtasks in FIFO order; when it is TRUE they are the hosted identity  *)
(* provider and document store, whose requests complete in any order and   *)
(* may fail.                                                               *)
(***************************************************************************)
EXTENDS Integers, Sequences, FiniteSets, TLC

\* ------------------------------------------------------------------ bounds
MaxNotif    == 2   \* notifications the identity provider delivers in a run
MaxPending  == 2   \* async functions suspended at the same time
MaxClock    == 2   \* values Date.now() takes in a run (also the uid space)
MaxWebhooks == 2   \* webhook requests in a run
MaxCalls    == 2   \* createStripeCheckoutSession calls in a run

Subs      == {1, 2}                      \* callers of onAuthStateChanged
Emails    == {"a@x.com", "b@x.com"}
Passwords == {"secret1", "secret2"}     \* passwords tried at logIn
SignUpPasswords == {"secret1"}           \* passwords chosen at signUp
Uids      == 1..MaxClock
EventTypes == {"checkout.session.completed", "invoice.paid"}
DreamUsers == {1, 2}                     \* userId of the dreams collections
DreamIds   == {1, 2}                     \* dream.id
Timestamps == {1, 2}                     \* dream.timestamp
Contents   == {"flying"}                 \* dream.content
ChatHistories == {"h1"}                  \* chatHistory passed to update
FormEmails    == {"", "a@x.com"}         \* values typed into the email field
FormPasswords == {"", "abc", "secret1"}  \* values typed into the password field
WeakPasswords == {"abc"}                 \* shorter than 6 characters

\* ------------------------------------------------------------------ values
\* firebaseUser === null
NoUser == [uid |-> 0, email |-> "none"]
\* a document that does not exist (userDoc.exists === false)
NoDoc == [id |-> 0, email |-> "none", plan |-> "none",
          trialEndDate |-> "none", stripeCustomerId |-> "none"]
\* callback(null)
Null == NoDoc
\* the handler has not been invoked yet
NotYet == [id |-> -1, email |-> "none", plan |-> "none",
           trialEndDate |-> "none", stripeCustomerId |-> "none"]
\* no account stored under a uid
NoAccount == [email |-> "none", password |-> "none"]

\* const newUser: User = { id: firebaseUser.uid, email: firebaseUser.email!, plan: 'free' }
NewUser(user) == [id |-> user.uid, email |-> user.email, plan |-> "free",
                  trialEndDate |-> "none", stripeCustomerId |-> "none"]

\* the profile mockAuth.createUserWithEmailAndPassword stores itself
MockProfile(user) == [id |-> user.uid, email |-> user.email, plan |-> "free",
                      trialEndDate |-> "set", stripeCustomerId |-> "none"]

\* a resolution that has not completed yet
NoRes == [user |-> NoUser, initial |-> FALSE, reads |-> 0, upsert |-> NoDoc,
          readFailed |-> FALSE, snap |-> NoDoc, invoked |-> FALSE,
          event |-> NotYet]

NoResp == [verified |-> FALSE, type |-> "none", ref |-> 0, status |-> 0]

NoOp == [kind |-> "none", user |-> NoUser, seq |-> 0, subs |-> {},
         done |-> FALSE]

\* a dream that does not exist; a dream without chatHistory carries "none"
NoDream == [id |-> 0, timestamp |-> 0, content |-> "none",
            chatHistory |-> "none"]

\* the dreams a caller passes to saveDreamForUser: no chat yet
Dreams == [id : DreamIds, timestamp : Timestamps, content : Contents,
           chatHistory : {"none"}]

\* no call to the document store yet
NoStoreOp == [kind |-> "none", user |-> 0, id |-> 0, batch |-> <<>>,
              chat |-> "none", result |-> <<>>, doc |-> NoDoc,
              exists |-> FALSE, error |-> FALSE]

\* useState('login'), useState(''), useState(''), useState(false),
\* useState(null)
NewForm == [mode |-> "login", email |-> "", password |-> "",
            isLoading |-> FALSE, error |-> "null"]

\* functions.config().stripe: whether price_id and trial_price_id are set
PriceIds == [regular : BOOLEAN, trial : BOOLEAN]

\* the price ids of a call that has not read them yet
NoIds == [regular |-> FALSE, trial |-> FALSE]

\* no createStripeCheckoutSession call has ended yet.  caller:
\* context.auth.uid (0: no context.auth); regular, trial: stripe.price_id and
\* stripe.trial_price_id as the call found them, or as they were when it
\* ended before reading them; read: what userDocRef.get() gave
\* ("none": not called, "failed", "missing", "found"); reads, billing: the
\* store reads and the calls to the billing API the call made; ref: the
\* client_reference_id of the session created (0: none); created:
\* customers.create gave the call a new customer; updated: its
\* userDocRef.update({ stripeCustomerId }) was applied
NoCheckout == [caller |-> 0, regular |-> FALSE, trial |-> FALSE,
               read |-> "none", result |-> "none", reads |-> 0,
               billing |-> 0, ref |-> 0, created |-> FALSE,
               updated |-> FALSE]

\* the ids the billing provider gives to the customers it creates
CustomerIds == <<"cus_1", "cus_2", "cus_3", "cus_4">>

\* no error caught
NoErr == [code |-> "none", message |-> "none"]

\* handleSubmit has not been called yet.  state: "invalid" (returned at the
\* field test), "waiting" (at its await), "rejected" (the call was rejected,
\* catch has not run yet), "done" or "failed" (past finally)
NoSubmit == [state |-> "idle", mode |-> "none", invoked |-> {}, seq |-> 0,
             err |-> NoErr, shown |-> "null"]

VARIABLES
  configured,    \* firebaseConfig.apiKey is set
  now,           \* Date.now()
  users,         \* mockDb.users / the provider's accounts: uid -> account
  userProfiles,  \* mockDb.userProfiles / the users collection: uid -> document
  currentUser,   \* mockAuth._currentUser
  listeners,     \* mockAuth._listeners: the wrappers, one per subscriber
  subState,      \* per subscriber: "new", "active" or "unsub"
  timers,        \* pending initial notifications (setTimeout(..., 100))
  pending,       \* suspended async functions, each at one await
  seq,           \* notifications delivered so far
  last,          \* per subscriber: the SessionEvent last passed to callback
  lastSeq,       \* per subscriber: the notification that event resolved
  lastRes,       \* the resolution that completed last
  authed,        \* identities of the signUp / logIn calls that returned
  lastOp,        \* the identity change made last
  resp,          \* the last webhook request and its response
  whCount,       \* webhook requests answered so far
  dreams,        \* mockDb.dreams / the dreams subcollections: userId -> array
  storeOp,       \* the last call to the document store and what it returned
  written,       \* per users document id: the value last passed to set
  form,          \* the state of AuthView: mode, email, password, isLoading, error
  formOp,        \* the last handleSubmit call
  calls,         \* createStripeCheckoutSession invocations in progress
  customers,     \* the billing customers created: customer number -> uid
  checkout,      \* the last createStripeCheckoutSession call that ended
  priceIds,      \* functions.config().stripe: the price ids that are set
  callCount      \* createStripeCheckoutSession calls made so far

sessionVars == <<configured, now, users, userProfiles, currentUser,
                 listeners, subState, timers, pending, seq, last, lastSeq,
                 lastRes, authed, lastOp, resp, whCount>>
storeVars == <<dreams, storeOp, written>>
formVars == <<form, formOp>>
checkoutVars == <<calls, customers, checkout, priceIds, callCount>>

vars == <<configured, now, users, userProfiles, currentUser, listeners,
          subState, timers, pending, seq, last, lastSeq, lastRes, authed,
          lastOp, resp, whCount, storeVars, formVars, checkoutVars>>

\* ----------------------------------------------------------------- helpers
Remove(s, i) == [j \in 1..(Len(s) - 1) |-> IF j < i THEN s[j] ELSE s[j + 1]]

Range(s) == {s[i] : i \in 1..Len(s)}

\* _listeners.filter(l => l !== callback)
Without(s, x) == SelectSeq(s, LAMBDA y : y # x)

Min(S) == CHOOSE x \in S : \A y \in S : x <= y

Task(kind, sub, n, user, pc, snap, initial) ==
  [kind |-> kind, sub |-> sub, seq |-> n, user |-> user, pc |-> pc,
   snap |-> snap, initial |-> initial]

\* the microtask queue of the mock runs in FIFO order; requests to the
\* hosted services complete in any order
Runnable(i) == i \in 1..Len(pending) /\ (configured \/ i = 1)

\* the async function pending[i] ran up to its next await and is now t: its
\* continuation is queued behind the ones already waiting
Continue(i, t) == Append(Remove(pending, i), t)

\* a macrotask (a timer) runs only when no microtask is queued
MacrotaskReady == configured \/ pending = <<>>

Init ==
  /\ configured \in BOOLEAN
  /\ now = 1
  /\ users = [u \in Uids |-> NoAccount]
  /\ userProfiles = [u \in Uids |-> NoDoc]
  /\ currentUser = NoUser
  /\ listeners = <<>>
  /\ subState = [s \in Subs |-> "new"]
  /\ timers = <<>>
  /\ pending = <<>>
  /\ seq = 0
  /\ last = [s \in Subs |-> NotYet]
  /\ lastSeq = [s \in Subs |-> 0]
  /\ lastRes = NoRes
  /\ authed = {}
  /\ lastOp = NoOp
  /\ resp = NoResp
  /\ whCount = 0
  /\ dreams = [u \in DreamUsers |-> <<>>]
  /\ storeOp = NoStoreOp
  /\ written = [u \in Uids |-> NoDoc]
  /\ form = NewForm
  /\ formOp = NoSubmit
  /\ calls = <<>>
  /\ customers = <<>>
  /\ checkout = NoCheckout
  /\ priceIds = [regular |-> TRUE, trial |-> TRUE]
  /\ callCount = 0

\* ------------------------------------------------- authService.onAuthStateChanged
\* The wrapper that onAuthStateChanged registers, called with firebaseUser.
\* Each operator gives what one branch of the wrapper does: the store reads,
\* the document it upserts (NoDoc: none) and the argument of callback.

\* ResolveAbsent of a wrapper that fetches before it tests firebaseUser
ResolveAbsentAfterGet ==
  [NoRes EXCEPT !.reads = 1, !.invoked = TRUE, !.event = Null]

\* else branch: callback(null)
ResolveAbsent ==
  [NoRes EXCEPT !.invoked = TRUE, !.event = Null]

\* ResolvePresent of a wrapper that sets a fresh profile on every resolution
ResolvePresentAlwaysSet(user, snap) ==
  [NoRes EXCEPT !.user = user, !.reads = 1, !.snap = snap, !.invoked = TRUE,
                !.upsert = NewUser(user), !.event = NewUser(user)]

\* if (firebaseUser): the get() settled with the document snap
ResolvePresent(user, snap) ==
  [NoRes EXCEPT !.user = user, !.reads = 1, !.snap = snap, !.invoked = TRUE,
                !.event = IF snap # NoDoc THEN snap ELSE Null]

\* if (firebaseUser): the get() was rejected; the wrapper has no try / catch,
\* so its promise is rejected and callback is not reached
ResolveFailed(user) ==
  [NoRes EXCEPT !.user = user, !.reads = 1, !.readFailed = TRUE]

Writes(r) == IF r.upsert = NoDoc THEN 0 ELSE 1

\* the store after the resolution r of uid
Upserted(store, uid, r) ==
  IF r.upsert = NoDoc THEN store ELSE [store EXCEPT ![uid] = r.upsert]

\* mockAuth._notifyListeners for a signed-in user: every wrapper calls get().
\* mockFirestore's get reads mockDb.userProfiles inside the call; the hosted
\* store reads when the request reaches it.
ResTasks(ls, user, n, store) ==
  [i \in 1..Len(ls) |->
     IF configured
       THEN Task("res", ls[i], n, user, "get", NoDoc, FALSE)
       ELSE Task("res", ls[i], n, user, "emit", store[user.uid], FALSE)]

\* callback(event) of subscriber s for notification n
Delivered(l, s, event) == [l EXCEPT ![s] = event]

\* auth.onAuthStateChanged(wrapper): the wrapper is registered and its
\* initial notification is scheduled for later.  Subscribers are numbered in
\* the order in which they subscribe.
Subscribe(s) ==
  /\ subState[s] = "new"
  /\ \A t \in Subs : t < s => subState[t] # "new"
  /\ subState' = [subState EXCEPT ![s] = "active"]
  /\ listeners' = Append(listeners, s)
  /\ timers' = Append(timers, s)
  /\ UNCHANGED <<configured, now, users, userProfiles, currentUser,
                 pending, seq, last, lastSeq, lastRes, authed,
                 lastOp, resp, whCount>>
  /\ UNCHANGED <<storeVars, formVars, checkoutVars>>

\* the function onAuthStateChanged returned.  The mock removes the wrapper
\* from _listeners and leaves its timer alone; the hosted provider also
\* drops the initial notification of a removed observer.
Unsubscribe(s) ==
  /\ subState[s] = "active"
  /\ subState' = [subState EXCEPT ![s] = "unsub"]
  /\ listeners' = Without(listeners, s)
  /\ timers' = IF configured THEN Without(timers, s) ELSE timers
  /\ UNCHANGED <<configured, now, users, userProfiles, currentUser,
                 pending, seq, last, lastSeq, lastRes, authed,
                 lastOp, resp, whCount>>
  /\ UNCHANGED <<storeVars, formVars, checkoutVars>>

\* setTimeout(() => callback(mockAuth._currentUser), 100) fires.  With the
\* mock the timer task and the microtask of the wrapper's await run back to
\* back; with the hosted store the get() is a request in flight.
TimerFire ==
  /\ timers # <<>>
  /\ MacrotaskReady
  /\ seq < MaxNotif
  /\ Len(pending) < MaxPending
  /\ seq' = seq + 1
  /\ timers' = Tail(timers)
  /\ LET s == Head(timers)
         n == seq + 1
     IN  IF currentUser = NoUser
           THEN LET r == [ResolveAbsent EXCEPT !.initial = TRUE]
                IN  /\ last' = Delivered(last, s, r.event)
                    /\ lastSeq' = [lastSeq EXCEPT ![s] = n]
                    /\ lastRes' = r
                    /\ UNCHANGED <<pending, userProfiles>>
           ELSE IF configured
             THEN /\ pending' = Append(pending,
                       Task("res", s, n, currentUser, "get", NoDoc, TRUE))
                  /\ UNCHANGED <<last, lastSeq, lastRes, userProfiles>>
             ELSE LET uid == currentUser.uid
                      r == [ResolvePresent(currentUser, userProfiles[uid])
                              EXCEPT !.initial = TRUE]
                  IN  /\ last' = Delivered(last, s, r.event)
                      /\ lastSeq' = [lastSeq EXCEPT ![s] = n]
                      /\ lastRes' = r
                      /\ userProfiles' = Upserted(userProfiles, uid, r)
                      /\ UNCHANGED pending
  /\ UNCHANGED <<configured, now, users, currentUser, listeners, subState,
                 authed, lastOp, resp, whCount>>
  /\ UNCHANGED <<storeVars, formVars, checkoutVars>>

\* the get() of a wrapper reaches the hosted store: it settles with the
\* document, or is rejected
ResGet(i) ==
  /\ Runnable(i)
  /\ configured
  /\ pending[i].kind = "res" /\ pending[i].pc = "get"
  /\ LET t == pending[i]
     IN  \/ /\ pending' = Continue(i, [t EXCEPT !.pc = "emit",
                                           !.snap = userProfiles[t.user.uid]])
            /\ UNCHANGED lastRes
         \/ /\ pending' = Remove(pending, i)
            /\ lastRes' = [ResolveFailed(t.user) EXCEPT !.initial = t.initial]
  /\ UNCHANGED <<configured, now, users, userProfiles, currentUser,
                 listeners, subState, timers, seq, last, lastSeq, authed,
                 lastOp, resp, whCount>>
  /\ UNCHANGED <<storeVars, formVars, checkoutVars>>

\* the wrapper resumes after await ...get(): if (userDoc.exists) ... else ...
ResEmit(i) ==
  /\ Runnable(i)
  /\ pending[i].kind = "res" /\ pending[i].pc = "emit"
  /\ LET t == pending[i]
         uid == t.user.uid
         r == [ResolvePresent(t.user, t.snap) EXCEPT !.initial = t.initial]
     IN  /\ pending' = Remove(pending, i)
         /\ last' = Delivered(last, t.sub, r.event)
         /\ lastSeq' = [lastSeq EXCEPT ![t.sub] = t.seq]
         /\ lastRes' = r
         /\ userProfiles' = Upserted(userProfiles, uid, r)
  /\ UNCHANGED <<configured, now, users, currentUser, listeners, subState,
                 timers, seq, authed, lastOp, resp, whCount>>
  /\ UNCHANGED <<storeVars, formVars, checkoutVars>>

\* ------------------------------------------------------------------ AuthView
\* if (!email || !password)
ValidEmailOnly(email, password) == email # ""

Valid(email, password) == email # "" /\ password # ""

\* if (mode === 'login') { await logIn(...) } else { await signUp(...) }
InvocationsBoth(mode) == {"logIn", "signUp"}

Invocations(mode) == IF mode = "login" THEN {"logIn"} ELSE {"signUp"}

\* the catch block of handleSubmit: the message shown for the error caught
ErrorMessageOfProvider(err) == err.message

ErrorMessage(err) ==
  IF err.code = "none" THEN "An unexpected error occurred."
  ELSE IF err.code \in {"auth/user-not-found", "auth/wrong-password"}
    THEN "Invalid email or password."
  ELSE IF err.code = "auth/email-already-in-use"
    THEN "An account with this email already exists."
  ELSE IF err.code = "auth/weak-password"
    THEN "Password should be at least 6 characters."
  ELSE err.message

\* the errors of the hosted services carry their code in their message
Firebase(code) ==
  [code |-> code,
   message |-> CASE code = "auth/user-not-found" ->
                      "Firebase: Error (auth/user-not-found)."
                 [] code = "auth/wrong-password" ->
                      "Firebase: Error (auth/wrong-password)."
                 [] code = "auth/email-already-in-use" ->
                      "Firebase: Error (auth/email-already-in-use)."
                 [] code = "auth/weak-password" ->
                      "Firebase: Password should be at least 6 characters (auth/weak-password)."
                 [] code = "auth/network-request-failed" ->
                      "Firebase: Error (auth/network-request-failed)."
                 [] OTHER -> "Failed to reach the document store."]

\* a request to the hosted document store failed
StoreErr == Firebase("unavailable")

\* handleSubmit is suspended at the await of the call that task t belongs to
Waiting(t) == formOp.state = "waiting" /\ formOp.seq = t.seq

\* the call of task t settled with err (NoErr: it returned): handleSubmit,
\* when it awaits that call, resumes through catch and finally
Resumed(t, err) ==
  IF Waiting(t)
    THEN /\ form' = [form EXCEPT
                       !.isLoading = FALSE,
                       !.error = IF err = NoErr THEN @ ELSE ErrorMessage(err)]
         /\ formOp' = [formOp EXCEPT
                         !.state = IF err = NoErr THEN "done" ELSE "failed",
                         !.err = err,
                         !.shown = IF err = NoErr THEN "null"
                                   ELSE ErrorMessage(err)]
    ELSE UNCHANGED formVars

\* ------------------------------------------------------- identity provider
\* Date.now() advances
Tick ==
  /\ ~configured
  /\ now < MaxClock
  /\ now' = now + 1
  /\ UNCHANGED <<configured, users, userProfiles, currentUser, listeners,
                 subState, timers, pending, seq, last, lastSeq, lastRes,
                 authed, lastOp, resp, whCount>>
  /\ UNCHANGED <<storeVars, formVars, checkoutVars>>

\* [...mockDb.userProfiles.values()].some(u => u.email === email); the
\* hosted provider refuses an email one of its accounts has
EmailInUse(email) ==
  IF configured
    THEN \E u \in Uids : users[u].email = email
    ELSE \E u \in Uids : userProfiles[u].email = email

\* const uid = `mock-uid-${Date.now()}`; the hosted provider issues an id
\* that no account has
NewUids ==
  IF configured
    THEN IF \E u \in Uids : users[u] = NoAccount
           THEN {Min({u \in Uids : users[u] = NoAccount})}
           ELSE {}
    ELSE {now}

\* [...mockDb.users.values()].find(u => u.email === email), then the
\* password test: the uids signInWithEmailAndPassword signs in
SignedIn(email, password) ==
  LET found == {u \in Uids : users[u].email = email}
  IN  IF found # {} /\ users[Min(found)].password = password
        THEN {Min(found)}
        ELSE {}

\* signUp up to its first await: auth.createUserWithEmailAndPassword.  The
\* mock stores the account and a profile of its own, sets _currentUser and
\* notifies the listeners before it returns.
SignUpStart(email, password) ==
  /\ seq < MaxNotif
  /\ Len(pending) + Len(listeners) < MaxPending
  /\ ~EmailInUse(email)
  /\ \E uid \in NewUids :
       LET user == [uid |-> uid, email |-> email]
           n == seq + 1
           store == IF configured THEN userProfiles
                    ELSE [userProfiles EXCEPT ![uid] = MockProfile(user)]
       IN  /\ users' = [users EXCEPT
                          ![uid] = [email |-> email, password |-> password]]
           /\ userProfiles' = store
           /\ currentUser' = user
           /\ seq' = n
           /\ pending' = pending \o ResTasks(listeners, user, n, store)
                           \o <<Task("signUp", 0, n, user, "set", NoDoc,
                                     FALSE)>>
           /\ lastOp' = [kind |-> "signUp", user |-> user, seq |-> n,
                         subs |-> Range(listeners), done |-> FALSE]
  /\ UNCHANGED <<configured, now, listeners, subState, timers, last, lastSeq,
                 lastRes, authed, resp, whCount>>
  /\ UNCHANGED <<storeVars, checkoutVars>>

\* signUp(email, password) called by the application
SignUpCall(email, password) ==
  SignUpStart(email, password) /\ UNCHANGED formVars

\* signUp resumes: await db.collection('users').doc(uid).set(newUser)
SignUpSet(i) ==
  /\ Runnable(i)
  /\ pending[i].kind = "signUp" /\ pending[i].pc = "set"
  /\ LET t == pending[i]
         uid == t.user.uid
     IN  \/ /\ userProfiles' = [userProfiles EXCEPT ![uid] = NewUser(t.user)]
            /\ pending' = Continue(i, [t EXCEPT !.pc = "ret"])
            /\ UNCHANGED formVars
         \/ /\ configured
            /\ pending' = Remove(pending, i)
            /\ Resumed(t, StoreErr)
            /\ UNCHANGED userProfiles
  /\ UNCHANGED <<configured, now, users, currentUser, listeners, subState,
                 timers, seq, last, lastSeq, lastRes, authed,
                 lastOp, resp, whCount>>
  /\ UNCHANGED <<storeVars, checkoutVars>>

\* the identity change n was made by the call that now returns
Returned(op, t) ==
  IF op.seq = t.seq THEN [op EXCEPT !.done = TRUE] ELSE op

\* signUp resumes: return newUser
SignUpRet(i) ==
  /\ Runnable(i)
  /\ pending[i].kind = "signUp" /\ pending[i].pc = "ret"
  /\ pending' = Remove(pending, i)
  /\ authed' = authed \cup {pending[i].user}
  /\ lastOp' = Returned(lastOp, pending[i])
  /\ UNCHANGED <<configured, now, users, userProfiles, currentUser,
                 listeners, subState, timers, seq, last, lastSeq, lastRes,
                 resp, whCount>>
  /\ Resumed(pending[i], NoErr)
  /\ UNCHANGED <<storeVars, checkoutVars>>

\* logIn up to its first await: auth.signInWithEmailAndPassword
LogInStart(email, password) ==
  /\ seq < MaxNotif
  /\ Len(pending) + Len(listeners) < MaxPending
  /\ \E uid \in SignedIn(email, password) :
       LET user == [uid |-> uid, email |-> users[uid].email]
           n == seq + 1
       IN  /\ currentUser' = user
           /\ seq' = n
           /\ pending' = pending
                           \o ResTasks(listeners, user, n, userProfiles)
                           \o <<Task("logIn", 0, n, user, "get", NoDoc,
                                     FALSE)>>
           /\ lastOp' = [kind |-> "logIn", user |-> user, seq |-> n,
                         subs |-> Range(listeners), done |-> FALSE]
  /\ UNCHANGED <<configured, now, users, userProfiles, listeners,
                 subState, timers, last, lastSeq, lastRes, authed,
                 resp, whCount>>
  /\ UNCHANGED <<storeVars, checkoutVars>>

\* logIn(email, password) called by the application
LogInCall(email, password) ==
  LogInStart(email, password) /\ UNCHANGED formVars

\* logIn resumes: await db.collection('users').doc(uid).get()
LogInGet(i) ==
  /\ Runnable(i)
  /\ pending[i].kind = "logIn" /\ pending[i].pc = "get"
  /\ LET t == pending[i]
     IN  \/ /\ pending' = Continue(i, [t EXCEPT !.pc = "got",
                                           !.snap = userProfiles[t.user.uid]])
            /\ UNCHANGED formVars
         \/ /\ configured
            /\ pending' = Remove(pending, i)
            /\ Resumed(t, StoreErr)
  /\ UNCHANGED <<configured, now, users, userProfiles, currentUser,
                 listeners, subState, timers, seq, last, lastSeq, lastRes,
                 authed, lastOp, resp, whCount>>
  /\ UNCHANGED <<storeVars, checkoutVars>>

\* logIn resumes: if (!userDoc.exists) { ... set(newUserProfile) ... }
\* return userDoc.data().  mockFirestore's set writes inside the call; the
\* hosted store writes when the request reaches it.
LogInGot(i) ==
  /\ Runnable(i)
  /\ pending[i].kind = "logIn" /\ pending[i].pc = "got"
  /\ LET t == pending[i]
         uid == t.user.uid
     IN  IF t.snap # NoDoc
           THEN /\ pending' = Remove(pending, i)
                /\ authed' = authed \cup {t.user}
                /\ lastOp' = Returned(lastOp, t)
                /\ Resumed(t, NoErr)
                /\ UNCHANGED userProfiles
           ELSE IF configured
             THEN /\ pending' = Continue(i, [t EXCEPT !.pc = "set"])
                  /\ UNCHANGED <<userProfiles, authed, lastOp, formVars>>
             ELSE /\ userProfiles' =
                       [userProfiles EXCEPT ![uid] = NewUser(t.user)]
                  /\ pending' = Continue(i, [t EXCEPT !.pc = "ret"])
                  /\ UNCHANGED <<authed, lastOp, formVars>>
  /\ UNCHANGED <<configured, now, users, currentUser, listeners, subState,
                 timers, seq, last, lastSeq, lastRes, resp,
                 whCount>>
  /\ UNCHANGED <<storeVars, checkoutVars>>

\* the set(newUserProfile) of logIn reaches the hosted store
LogInSet(i) ==
  /\ Runnable(i)
  /\ configured
  /\ pending[i].kind = "logIn" /\ pending[i].pc = "set"
  /\ LET t == pending[i]
         uid == t.user.uid
     IN  \/ /\ userProfiles' = [userProfiles EXCEPT ![uid] = NewUser(t.user)]
            /\ pending' = Continue(i, [t EXCEPT !.pc = "ret"])
            /\ UNCHANGED formVars
         \/ /\ pending' = Remove(pending, i)
            /\ Resumed(t, StoreErr)
            /\ UNCHANGED userProfiles
  /\ UNCHANGED <<configured, now, users, currentUser, listeners, subState,
                 timers, seq, last, lastSeq, lastRes, authed,
                 lastOp, resp, whCount>>
  /\ UNCHANGED <<storeVars, checkoutVars>>

\* logIn resumes: return newUserProfile
LogInRet(i) ==
  /\ Runnable(i)
  /\ pending[i].kind = "logIn" /\ pending[i].pc = "ret"
  /\ pending' = Remove(pending, i)
  /\ authed' = authed \cup {pending[i].user}
  /\ lastOp' = Returned(lastOp, pending[i])
  /\ UNCHANGED <<configured, now, users, userProfiles, currentUser,
                 listeners, subState, timers, seq, last, lastSeq, lastRes,
                 resp, whCount>>
  /\ Resumed(pending[i], NoErr)
  /\ UNCHANGED <<storeVars, checkoutVars>>

\* logOut: auth.signOut() clears _currentUser and notifies the listeners;
\* every wrapper takes its else branch and calls callback(null) at once
LogOut ==
  /\ seq < MaxNotif
  /\ currentUser' = NoUser
  /\ seq' = seq + 1
  /\ LET r == ResolveAbsent
     IN  /\ last' = [s \in Subs |->
                       IF s \in Range(listeners) THEN r.event ELSE last[s]]
         /\ lastSeq' = [s \in Subs |->
                          IF s \in Range(listeners) THEN seq + 1
                          ELSE lastSeq[s]]
         /\ lastRes' = IF listeners = <<>> THEN lastRes ELSE r
  /\ lastOp' = [kind |-> "logOut", user |-> NoUser, seq |-> seq + 1,
                subs |-> Range(listeners), done |-> TRUE]
  /\ UNCHANGED <<configured, now, users, userProfiles, listeners,
                 subState, timers, pending, authed, resp, whCount>>
  /\ UNCHANGED <<storeVars, formVars, checkoutVars>>

\* ------------------------------------------------------- AuthView handlers
\* what auth.signInWithEmailAndPassword rejects with.  The mock has one
\* rejection for an unknown email and for a wrong password.
SignInErrors(email, password) ==
  IF SignedIn(email, password) # {} THEN {}
  ELSE IF ~configured
    THEN {[code |-> "auth/wrong-password",
           message |-> "Invalid email or password."]}
  ELSE IF \E u \in Uids : users[u].email = email
    THEN {Firebase("auth/wrong-password")}
    ELSE {Firebase("auth/user-not-found")}

\* what auth.createUserWithEmailAndPassword rejects with.  The mock accepts
\* every password.
SignUpErrors(email, password) ==
  IF ~configured
    THEN IF EmailInUse(email)
           THEN {[code |-> "auth/email-already-in-use",
                  message |-> "An account with this email already exists."]}
           ELSE {}
    ELSE (IF password \in WeakPasswords
            THEN {Firebase("auth/weak-password")} ELSE {})
           \cup (IF EmailInUse(email)
                   THEN {Firebase("auth/email-already-in-use")} ELSE {})

\* the rejections of the call handleSubmit makes; a request to the hosted
\* provider can also fail on its way
Rejections(mode, email, password) ==
  (IF "logIn" \in Invocations(mode)
     THEN SignInErrors(email, password) ELSE {})
    \cup (IF "signUp" \in Invocations(mode)
            THEN SignUpErrors(email, password) ELSE {})
    \cup (IF configured
            THEN {Firebase("auth/network-request-failed")} ELSE {})

\* onChange of the email field
SetEmail(v) ==
  /\ form' = [form EXCEPT !.email = v]
  /\ UNCHANGED <<sessionVars, storeVars, formOp, checkoutVars>>

\* onChange of the password field
SetPassword(v) ==
  /\ form' = [form EXCEPT !.password = v]
  /\ UNCHANGED <<sessionVars, storeVars, formOp, checkoutVars>>

\* toggleMode
ToggleMode ==
  /\ form' = [form EXCEPT
                !.mode = IF form.mode = "login" THEN "signup" ELSE "login",
                !.error = "null", !.email = "", !.password = ""]
  /\ UNCHANGED <<sessionVars, storeVars, formOp, checkoutVars>>

\* handleSubmit up to its await; the submit button is disabled while
\* isLoading.  The call either starts, and handleSubmit waits for it, or is
\* rejected by the identity provider.
FormSubmit ==
  /\ ~form.isLoading
  /\ IF ~Valid(form.email, form.password)
       THEN /\ form' = [form EXCEPT
                          !.error = "Please enter both email and password."]
            /\ formOp' = [NoSubmit EXCEPT
                            !.state = "invalid", !.mode = form.mode]
            /\ UNCHANGED <<sessionVars, storeVars, checkoutVars>>
       ELSE LET op == [NoSubmit EXCEPT !.mode = form.mode,
                                       !.invoked = Invocations(form.mode)]
            IN  /\ form' = [form EXCEPT !.isLoading = TRUE, !.error = "null"]
                /\ \/ /\ "logIn" \in op.invoked
                      /\ SignInErrors(form.email, form.password) = {}
                      /\ LogInStart(form.email, form.password)
                      /\ formOp' = [op EXCEPT !.state = "waiting",
                                              !.seq = seq + 1]
                   \/ /\ "signUp" \in op.invoked
                      /\ SignUpErrors(form.email, form.password) = {}
                      /\ SignUpStart(form.email, form.password)
                      /\ formOp' = [op EXCEPT !.state = "waiting",
                                              !.seq = seq + 1]
                   \/ \E err \in Rejections(form.mode, form.email,
                                            form.password) :
                        /\ formOp' = [op EXCEPT !.state = "rejected",
                                                !.err = err]
                        /\ UNCHANGED <<sessionVars, storeVars, checkoutVars>>

\* handleSubmit resumes after a rejected call: catch, then finally
FormCatch ==
  /\ formOp.state = "rejected"
  /\ form' = [form EXCEPT !.isLoading = FALSE,
                          !.error = ErrorMessage(formOp.err)]
  /\ formOp' = [formOp EXCEPT !.state = "failed",
                              !.shown = ErrorMessage(formOp.err)]
  /\ UNCHANGED <<sessionVars, storeVars, checkoutVars>>

\* ------------------------------------------------------------ stripeWebhook
\* The response status of one request.  secret: stripe.webhook_secret is
\* configured; verified: constructEvent did not throw; ref: the event's
\* client_reference_id (0: none); updated: userRef.update did not throw.
WebhookStatus(secret, verified, type, ref, updated) ==
  IF ~secret THEN 400
  ELSE IF ~verified THEN 400
  ELSE IF type = "checkout.session.completed"
    THEN IF ref = 0 THEN 400
         ELSE IF updated THEN 200 ELSE 500
    ELSE 200

\* What one request showed of itself and how it was answered.  event exists
\* only when constructEvent returned, and client_reference_id is read only
\* of a 'checkout completed' event.
Response(secret, verified, type, ref, updated) ==
  LET event == secret /\ verified
      completed == event /\ type = "checkout.session.completed"
  IN  [verified |-> event,
       type |-> IF event THEN type ELSE "none",
       ref |-> IF completed THEN ref ELSE 0,
       status |-> WebhookStatus(secret, verified, type, ref, updated)]

\* WebhookUpdates of a function that does not verify the signature
WebhookUpdatesUnverified(secret, verified, type, ref) ==
  type = "checkout.session.completed" /\ ref # 0

\* whether the request reaches userRef.update({ plan: "pro" })
WebhookUpdates(secret, verified, type, ref) ==
  secret /\ verified /\ type = "checkout.session.completed" /\ ref # 0

\* one request to the stripeWebhook function, which runs beside the hosted
\* store.  update() of a document that does not exist is rejected.
StripeWebhook(secret, verified, type, ref) ==
  /\ configured
  /\ whCount < MaxWebhooks
  /\ whCount' = whCount + 1
  /\ \E ok \in BOOLEAN :
       LET updated == WebhookUpdates(secret, verified, type, ref)
                        /\ ok /\ userProfiles[ref] # NoDoc
       IN  /\ userProfiles' =
                IF updated
                  THEN [userProfiles EXCEPT ![ref].plan = "pro"]
                  ELSE userProfiles
           /\ resp' = Response(secret, verified, type, ref, updated)
  /\ UNCHANGED <<configured, now, users, currentUser, listeners, subState,
                 timers, pending, seq, last, lastSeq, lastRes, authed, lastOp>>
  /\ UNCHANGED <<storeVars, formVars, checkoutVars>>

\* ---------------------------------------------- createStripeCheckoutSession
\* firebase functions:config:set stripe.price_id / stripe.trial_price_id and
\* a deployment: the configuration the function reads changes
Configure(ids) ==
  /\ configured
  /\ priceIds # ids
  /\ priceIds' = ids
  /\ UNCHANGED <<sessionVars, storeVars, formVars, calls, customers,
                 checkout, callCount>>

\* if (!regularPriceId || !trialPriceId) is not taken
PricedEither(ids) == ids.regular \/ ids.trial

Priced(ids) == ids.regular /\ ids.trial

\* the invocation c ended with result, the price ids being ids
Ended(c, result, ids) ==
  [caller |-> c.caller, regular |-> ids.regular, trial |-> ids.trial,
   read |-> c.read, result |-> result, reads |-> c.reads,
   billing |-> c.billing, ref |-> IF result = "session" THEN c.caller ELSE 0,
   created |-> c.created, updated |-> c.updated]

\* the function is invoked: without context.auth it throws 'unauthenticated'
\* at once, otherwise it runs up to await userDocRef.get()
CheckoutCall(caller) ==
  /\ configured
  /\ callCount < MaxCalls
  /\ callCount' = callCount + 1
  /\ LET c == [caller |-> caller, pc |-> "get", read |-> "none",
               customer |-> "none", ids |-> NoIds, reads |-> 0,
               billing |-> 0, created |-> FALSE, updated |-> FALSE]
     IN  IF caller = 0
           THEN /\ checkout' = Ended(c, "unauthenticated", priceIds)
                /\ UNCHANGED calls
           ELSE /\ calls' = Append(calls, c)
                /\ UNCHANGED checkout
  /\ UNCHANGED <<sessionVars, storeVars, formVars, customers, priceIds>>

\* userDocRef.get() returned or failed; 'not-found' when there is no
\* userData; with a stripeCustomerId in userData the function goes on to the
\* price ids and to await checkout.sessions.create, without one to await
\* customers.create.  An error that is not an HttpsError reaches the caller
\* as 'internal'.
CheckoutGet(i) ==
  /\ i \in 1..Len(calls)
  /\ calls[i].pc = "get"
  /\ \E ok \in BOOLEAN :
       LET userData == userProfiles[calls[i].caller]
           c == [calls[i] EXCEPT
                   !.reads = @ + 1,
                   !.read = IF ~ok THEN "failed"
                            ELSE IF userData = NoDoc THEN "missing"
                            ELSE "found",
                   !.customer = IF ok THEN userData.stripeCustomerId
                                ELSE "none"]
       IN  IF ~ok \/ userData = NoDoc
             THEN /\ checkout' = Ended(c, IF ok THEN "not-found"
                                          ELSE "internal", priceIds)
                  /\ calls' = Remove(calls, i)
           ELSE IF c.customer = "none"
             THEN /\ calls' = [calls EXCEPT ![i] = [c EXCEPT
                                                      !.pc = "customer"]]
                  /\ UNCHANGED checkout
           ELSE IF Priced(priceIds)
             THEN /\ calls' = [calls EXCEPT ![i] = [c EXCEPT
                                                      !.pc = "session",
                                                      !.ids = priceIds]]
                  /\ UNCHANGED checkout
           ELSE /\ checkout' = Ended(c, "internal", priceIds)
                /\ calls' = Remove(calls, i)
  /\ UNCHANGED <<sessionVars, storeVars, formVars, customers, priceIds,
                 callCount>>

\* stripeClient.customers.create returned a new customer or failed
CheckoutCustomer(i) ==
  /\ i \in 1..Len(calls)
  /\ calls[i].pc = "customer"
  /\ Len(customers) < Len(CustomerIds)
  /\ \E ok \in BOOLEAN :
       LET c == [calls[i] EXCEPT !.billing = @ + 1]
       IN  IF ok
             THEN /\ customers' = Append(customers, c.caller)
                  /\ calls' = [calls EXCEPT ![i] =
                                 [c EXCEPT
                                    !.pc = "update",
                                    !.created = TRUE,
                                    !.customer =
                                       CustomerIds[Len(customers) + 1]]]
                  /\ UNCHANGED checkout
             ELSE /\ checkout' = Ended(c, "internal", priceIds)
                  /\ calls' = Remove(calls, i)
                  /\ UNCHANGED customers
  /\ UNCHANGED <<sessionVars, storeVars, formVars, priceIds, callCount>>

\* userDocRef.update({ stripeCustomerId }) was applied or failed (update()
\* of a document that does not exist is rejected); then the price ids are
\* read
CheckoutUpdate(i) ==
  /\ i \in 1..Len(calls)
  /\ calls[i].pc = "update"
  /\ \E ok \in BOOLEAN :
       LET updated == ok /\ userProfiles[calls[i].caller] # NoDoc
           c == [calls[i] EXCEPT !.updated = updated]
       IN  /\ userProfiles' =
                IF updated
                  THEN [userProfiles EXCEPT
                          ![c.caller].stripeCustomerId = c.customer]
                  ELSE userProfiles
           /\ IF updated /\ Priced(priceIds)
                THEN /\ calls' = [calls EXCEPT ![i] = [c EXCEPT
                                                        !.pc = "session",
                                                        !.ids = priceIds]]
                     /\ UNCHANGED checkout
                ELSE /\ checkout' = Ended(c, "internal", priceIds)
                     /\ calls' = Remove(calls, i)
  /\ UNCHANGED <<configured, now, users, currentUser, listeners, subState,
                 timers, pending, seq, last, lastSeq, lastRes, authed,
                 lastOp, resp, whCount, storeVars, formVars, customers,
                 priceIds, callCount>>

\* stripeClient.checkout.sessions.create returned the session, whose
\* client_reference_id is context.auth.uid, or failed.  The price ids are
\* the ones the call read.
CheckoutSession(i) ==
  /\ i \in 1..Len(calls)
  /\ calls[i].pc = "session"
  /\ \E ok \in BOOLEAN :
       LET c == [calls[i] EXCEPT !.billing = @ + 1]
       IN  checkout' = Ended(c, IF ok THEN "session" ELSE "internal", c.ids)
  /\ calls' = Remove(calls, i)
  /\ UNCHANGED <<sessionVars, storeVars, formVars, customers, priceIds,
                 callCount>>

\* ---------------------------------------------------------- dreams documents
\* mockDb.dreams.get(docId) || []
Index(list, id) == {i \in 1..Len(list) : list[i].id = id}

\* doc(subDocId).set(data): findIndex(d => d.id === subDocId); the entry
\* found is replaced by data, otherwise data is pushed
SetDreamAlwaysPush(list, d) == Append(list, d)

SetDream(list, d) ==
  IF Index(list, d.id) # {}
    THEN [list EXCEPT ![Min(Index(list, d.id))] = d]
    ELSE Append(list, d)

\* doc(subDocId).update(data): { ...userDreams[index], ...data } when the
\* entry is found, nothing otherwise.  data is { chatHistory }.
UpdateDream(list, id, chat) ==
  IF Index(list, id) # {}
    THEN [list EXCEPT ![Min(Index(list, id))].chatHistory = chat]
    ELSE list

\* the comparator of orderBy('timestamp', 'desc'): a goes before b.  The
\* mock compares the timestamps alone; the hosted store orders documents of
\* equal timestamp by their id.
Precedes(a, b) ==
  \/ a.timestamp > b.timestamp
  \/ configured /\ a.timestamp = b.timestamp /\ a.id > b.id

\* x placed into the sorted list s, behind the entries that precede it
InsertDesc(x, s) ==
  LET k == Cardinality({i \in 1..Len(s) : Precedes(s[i], x)})
  IN  SubSeq(s, 1, k) \o <<x>> \o SubSeq(s, k + 1, Len(s))

\* [...userDreams].sort((a, b) => new Date(b.timestamp).getTime() -
\* new Date(a.timestamp).getTime()): a stable sort of a copy
RECURSIVE SortDesc(_)
SortDesc(s) ==
  IF s = <<>> THEN <<>> ELSE InsertDesc(Head(s), SortDesc(Tail(s)))

\* batch.set(docRef, dream) for every dream, then batch.commit(): the
\* collection the commit leaves.  The batch of the mock has an empty set and
\* a commit that only resolves; the hosted store applies every set of the
\* batch in one write.
RECURSIVE SetAll(_, _)
SetAll(list, batch) ==
  IF batch = <<>> THEN list
  ELSE SetAll(SetDream(list, Head(batch)), Tail(batch))

Committed(list, batch) ==
  IF configured THEN SetAll(list, batch) ELSE list

\* the batches a caller passes to saveAllDreamsForUser: dreams of
\* different ids
Batches ==
  {<<>>} \cup {<<d>> : d \in Dreams}
         \cup {b \in {<<d, e>> : d \in Dreams, e \in Dreams} :
                  b[1].id # b[2].id}

\* getDreamsForUser(userId): the documents of the collection, ordered.  A
\* request to the hosted store may fail; the mock always resolves.
GetDreamsForUser(u) ==
  /\ \E ok \in {TRUE} \cup (IF configured THEN {FALSE} ELSE {}) :
       storeOp' = [NoStoreOp EXCEPT
                     !.kind = "list", !.user = u,
                     !.result = IF ok THEN SortDesc(dreams[u]) ELSE <<>>,
                     !.error = ~ok]
  /\ UNCHANGED <<configured, now, users, userProfiles, currentUser,
                 listeners, subState, timers, pending, seq, last, lastSeq,
                 lastRes, authed, lastOp, resp, whCount, dreams, written,
                 formVars, checkoutVars>>

\* saveDreamForUser(userId, dream): doc(dream.id).set(dream)
SaveDreamForUser(u, d) ==
  /\ \E ok \in {TRUE} \cup (IF configured THEN {FALSE} ELSE {}) :
       /\ dreams' = IF ok THEN [dreams EXCEPT ![u] = SetDream(@, d)]
                    ELSE dreams
       /\ storeOp' = [NoStoreOp EXCEPT
                        !.kind = "save", !.user = u, !.id = d.id,
                        !.batch = <<d>>, !.error = ~ok]
  /\ UNCHANGED <<configured, now, users, userProfiles, currentUser,
                 listeners, subState, timers, pending, seq, last, lastSeq,
                 lastRes, authed, lastOp, resp, whCount, written,
                 formVars, checkoutVars>>

\* saveAllDreamsForUser(userId, dreams): db.batch(), batch.set for every
\* dream, await batch.commit()
SaveAllDreamsForUser(u, batch) ==
  /\ \E ok \in {TRUE} \cup (IF configured THEN {FALSE} ELSE {}) :
       /\ dreams' = IF ok THEN [dreams EXCEPT ![u] = Committed(@, batch)]
                    ELSE dreams
       /\ storeOp' = [NoStoreOp EXCEPT
                        !.kind = "saveAll", !.user = u, !.batch = batch,
                        !.error = ~ok]
  /\ UNCHANGED <<configured, now, users, userProfiles, currentUser,
                 listeners, subState, timers, pending, seq, last, lastSeq,
                 lastRes, authed, lastOp, resp, whCount, written,
                 formVars, checkoutVars>>

\* addChatMessageToDream(userId, dreamId, chatHistory):
\* dreamRef.update({ chatHistory }).  The mock resolves whether or not the
\* dream is there; the hosted store rejects update() of a document that does
\* not exist.
AddChatMessageToDream(u, id, chat) ==
  /\ \E ok \in {TRUE} \cup (IF configured THEN {FALSE} ELSE {}) :
       LET found == Index(dreams[u], id) # {}
           applied == ok /\ (found \/ ~configured)
       IN  /\ dreams' = IF applied
                          THEN [dreams EXCEPT ![u] = UpdateDream(@, id, chat)]
                          ELSE dreams
           /\ storeOp' = [NoStoreOp EXCEPT
                            !.kind = "update", !.user = u, !.id = id,
                            !.chat = chat, !.exists = found,
                            !.error = ~applied]
  /\ UNCHANGED <<configured, now, users, userProfiles, currentUser,
                 listeners, subState, timers, pending, seq, last, lastSeq,
                 lastRes, authed, lastOp, resp, whCount, written,
                 formVars, checkoutVars>>

\* ----------------------------------------------------------- users documents
\* the values a caller passes to doc(id).set
Profiles == [id : Uids, email : Emails, plan : {"free", "pro"},
             trialEndDate : {"none"}, stripeCustomerId : {"none"}]

\* set: mockDb.userProfiles.set(docId, data)
SetDocUnderDataId(store, docId, data) == [store EXCEPT ![data.id] = data]

SetDoc(store, docId, data) == [store EXCEPT ![docId] = data]

\* get: { exists: !!userProfile, data: () => userProfile }
GetDoc(store, docId) ==
  [exists |-> store[docId] # NoDoc, data |-> store[docId]]

\* db.collection('users').doc(docId).set(data).  A request to the hosted
\* store may fail; the mock always resolves.
UsersSet(docId, data) ==
  /\ \E ok \in {TRUE} \cup (IF configured THEN {FALSE} ELSE {}) :
       /\ userProfiles' = IF ok THEN SetDoc(userProfiles, docId, data)
                          ELSE userProfiles
       /\ written' = IF ok THEN [written EXCEPT ![docId] = data] ELSE written
       /\ storeOp' = [NoStoreOp EXCEPT
                        !.kind = "set", !.user = docId, !.doc = data,
                        !.error = ~ok]
  /\ UNCHANGED <<configured, now, users, currentUser, listeners, subState,
                 timers, pending, seq, last, lastSeq, lastRes, authed,
                 lastOp, resp, whCount, dreams, formVars, checkoutVars>>

\* db.collection('users').doc(docId).get()
UsersGet(docId) ==
  /\ \E ok \in {TRUE} \cup (IF configured THEN {FALSE} ELSE {}) :
       LET snap == GetDoc(userProfiles, docId)
       IN  storeOp' = [NoStoreOp EXCEPT
                         !.kind = "get", !.user = docId,
                         !.exists = ok /\ snap.exists,
                         !.doc = IF ok THEN snap.data ELSE NoDoc,
                         !.error = ~ok]
  /\ UNCHANGED <<configured, now, users, userProfiles, currentUser,
                 listeners, subState, timers, pending, seq, last, lastSeq,
                 lastRes, authed, lastOp, resp, whCount, dreams, written,
                 formVars, checkoutVars>>

\* ------------------------------------------------------------ specification
Next ==
  \/ \E s \in Subs : Subscribe(s)
  \/ \E s \in Subs : Unsubscribe(s)
  \/ TimerFire
  \/ \E i \in 1..Len(pending) : ResGet(i)
  \/ \E i \in 1..Len(pending) : ResEmit(i)
  \/ Tick
  \/ \E e \in Emails, p \in SignUpPasswords : SignUpCall(e, p)
  \/ \E i \in 1..Len(pending) : SignUpSet(i)
  \/ \E i \in 1..Len(pending) : SignUpRet(i)
  \/ \E e \in Emails, p \in Passwords : LogInCall(e, p)
  \/ \E i \in 1..Len(pending) : LogInGet(i)
  \/ \E i \in 1..Len(pending) : LogInGot(i)
  \/ \E i \in 1..Len(pending) : LogInSet(i)
  \/ \E i \in 1..Len(pending) : LogInRet(i)
  \/ LogOut
  \/ \E secret \in BOOLEAN, verified \in BOOLEAN, type \in EventTypes,
        ref \in {0} \cup Uids :
       StripeWebhook(secret, verified, type, ref)

Spec == Init /\ [][Next]_vars

\* the client alone: sessions, subscribers and the profile store
NextSession ==
  \/ \E s \in Subs : Subscribe(s)
  \/ \E s \in Subs : Unsubscribe(s)
  \/ TimerFire
  \/ \E i \in 1..Len(pending) : ResGet(i)
  \/ \E i \in 1..Len(pending) : ResEmit(i)
  \/ Tick
  \/ \E e \in Emails, p \in SignUpPasswords : SignUpCall(e, p)
  \/ \E i \in 1..Len(pending) : SignUpSet(i)
  \/ \E i \in 1..Len(pending) : SignUpRet(i)
  \/ \E e \in Emails, p \in Passwords : LogInCall(e, p)
  \/ \E i \in 1..Len(pending) : LogInGet(i)
  \/ \E i \in 1..Len(pending) : LogInGot(i)
  \/ \E i \in 1..Len(pending) : LogInSet(i)
  \/ \E i \in 1..Len(pending) : LogInRet(i)
  \/ LogOut

SpecSession == Init /\ [][NextSession]_vars

\* the hosted deployment: the writers of the users collection, which are
\* the authentication calls and the webhook function
InitBilling == Init /\ configured

NextBilling ==
  \/ \E e \in Emails, p \in SignUpPasswords : SignUpCall(e, p)
  \/ \E i \in 1..Len(pending) : SignUpSet(i)
  \/ \E i \in 1..Len(pending) : SignUpRet(i)
  \/ \E e \in Emails, p \in Passwords : LogInCall(e, p)
  \/ \E i \in 1..Len(pending) : LogInGet(i)
  \/ \E i \in 1..Len(pending) : LogInGot(i)
  \/ \E i \in 1..Len(pending) : LogInSet(i)
  \/ \E i \in 1..Len(pending) : LogInRet(i)
  \/ LogOut
  \/ \E secret \in BOOLEAN, verified \in BOOLEAN, type \in EventTypes,
        ref \in {0} \cup Uids :
       StripeWebhook(secret, verified, type, ref)

SpecBilling == InitBilling /\ [][NextBilling]_vars

\* the dreams collections alone, under the four functions of authService
\* that reach them
NextDreams ==
  \/ \E u \in DreamUsers : GetDreamsForUser(u)
  \/ \E u \in DreamUsers, d \in Dreams : SaveDreamForUser(u, d)
  \/ \E u \in DreamUsers, b \in Batches : SaveAllDreamsForUser(u, b)
  \/ \E u \in DreamUsers, id \in DreamIds, h \in ChatHistories :
       AddChatMessageToDream(u, id, h)

SpecDreams == Init /\ [][NextDreams]_vars

\* the users documents alone, set and read by a caller of db
NextProfiles ==
  \/ \E id \in Uids, p \in Profiles : UsersSet(id, p)
  \/ \E id \in Uids : UsersGet(id)

SpecProfiles == Init /\ [][NextProfiles]_vars

\* AuthView with one subscriber: the form, the calls it makes and the
\* resolutions they start
NextForm ==
  \/ \E v \in FormEmails : SetEmail(v)
  \/ \E v \in FormPasswords : SetPassword(v)
  \/ ToggleMode
  \/ FormSubmit
  \/ FormCatch
  \/ Subscribe(1)
  \/ TimerFire
  \/ \E i \in 1..Len(pending) : ResGet(i)
  \/ \E i \in 1..Len(pending) : ResEmit(i)
  \/ \E i \in 1..Len(pending) : SignUpSet(i)
  \/ \E i \in 1..Len(pending) : SignUpRet(i)
  \/ \E i \in 1..Len(pending) : LogInGet(i)
  \/ \E i \in 1..Len(pending) : LogInGot(i)
  \/ \E i \in 1..Len(pending) : LogInSet(i)
  \/ \E i \in 1..Len(pending) : LogInRet(i)
  \/ LogOut

SpecForm == Init /\ [][NextForm]_vars

\* createStripeCheckoutSession in the hosted deployment, called by anyone
\* while users sign up
NextCheckout ==
  \/ \E e \in Emails, p \in SignUpPasswords : SignUpCall(e, p)
  \/ \E i \in 1..Len(pending) : SignUpSet(i)
  \/ \E i \in 1..Len(pending) : SignUpRet(i)
  \/ \E ids \in PriceIds : Configure(ids)
  \/ \E caller \in {0} \cup Uids : CheckoutCall(caller)
  \/ \E i \in 1..Len(calls) : CheckoutGet(i)
  \/ \E i \in 1..Len(calls) : CheckoutCustomer(i)
  \/ \E i \in 1..Len(calls) : CheckoutUpdate(i)
  \/ \E i \in 1..Len(calls) : CheckoutSession(i)

SpecCheckout == InitBilling /\ [][NextCheckout]_vars

\* ------------------------------------------------------------------- claims
\* a step in which the handler of s is invoked
Invoked(s) == lastSeq'[s] # lastSeq[s]

\* a step in which some handler is invoked; lastRes' is then the resolution
\* whose result the step delivers
Delivery == \E s \in Subs : Invoked(s)

\* C1: the resolutions of the notifications delivered to a subscriber reach
\* its handler in the order of the notifications: the resolution of an
\* earlier notification is never delivered after that of a later one, so the
\* last SessionEvent delivered resolves the last notification.
C1_StaleResultSuppression ==
  [][\A s \in Subs : lastSeq'[s] >= lastSeq[s]]_vars

\* C2: a resolution of a present identity whose read found no UserProfile
\* upserts {id, email, plan: free} once and emits that value, not none.
C2_SelfHealing ==
  (lastRes.user # NoUser /\ lastRes.reads = 1 /\ ~lastRes.readFailed
     /\ lastRes.snap = NoDoc)
  => /\ lastRes.invoked
     /\ Writes(lastRes) = 1
     /\ lastRes.upsert = NewUser(lastRes.user)
     /\ lastRes.event = NewUser(lastRes.user)

\* C3: when the last identity change is a signUp that has returned and
\* nothing is in flight any more, the last SessionEvent of every handler
\* that was subscribed at the signUp, and still is, is the new user's
\* UserProfile.
C3_SignUpProducesSession ==
  (lastOp.kind = "signUp" /\ lastOp.done /\ pending = <<>>)
  => \A s \in lastOp.subs \cap Range(listeners) :
       last[s].id = lastOp.user.uid

\* C4: a resolution whose store read failed invokes the handler with none.
C4_FailClosed ==
  lastRes.readFailed => (lastRes.invoked /\ lastRes.event = Null)

\* C5: the handler of a subscriber that has unsubscribed is never invoked
\* again, and an unsubscribe leaves the other subscribers registered.
C5_Unsubscribe ==
  [][/\ \A s \in Subs : subState[s] = "unsub" => ~Invoked(s)
     /\ \A s \in Subs :
          (subState[s] = "active" /\ subState'[s] = "unsub")
          => \A t \in Subs \ {s} :
               (t \in Range(listeners)) <=> (t \in Range(listeners'))]_vars

\* C6: every identity whose signUp or logIn has returned has a UserProfile
\* stored under its id, with that id and the identity's email.
C6_OneProfilePerIdentity ==
  \A a \in authed :
    /\ userProfiles[a.uid] # NoDoc
    /\ userProfiles[a.uid].id = a.uid
    /\ userProfiles[a.uid].email = a.email

\* C7: when two resolutions in a row are of the same present identity and
\* read the same existing UserProfile, both emit that profile and the second
\* writes nothing to the Profile Store.
C7_IdempotentResolution ==
  [][(/\ Delivery
      /\ lastRes.invoked /\ lastRes.snap # NoDoc
      /\ lastRes'.user = lastRes.user
      /\ lastRes'.snap = lastRes.snap)
     => /\ lastRes'.event = lastRes.event
        /\ lastRes'.event = lastRes'.snap
        /\ \A s \in Subs : Invoked(s) => last'[s] = lastRes.snap
        /\ Writes(lastRes') = 0
        /\ userProfiles' = userProfiles]_vars

\* two handlers have received the same existing profile from two resolutions
C7_Witness ==
  /\ lastRes.invoked /\ lastRes.snap # NoDoc
  /\ \E s, t \in Subs :
       /\ s # t
       /\ lastSeq[s] > 0 /\ lastSeq[t] > 0
       /\ last[s] = lastRes.snap /\ last[t] = lastRes.snap

\* C8: the resolution of a notification whose identity is absent invokes
\* the handler with none and neither reads nor writes the Profile Store.
C8_AbsentIdentity ==
  [][(Delivery /\ lastRes'.user = NoUser)
     => /\ lastRes'.invoked
        /\ lastRes'.event = Null
        /\ \A s \in Subs : Invoked(s) => last'[s] = Null
        /\ lastRes'.reads = 0
        /\ Writes(lastRes') = 0
        /\ userProfiles' = userProfiles]_vars

\* a handler has been invoked with none for a signed-out notification while
\* a profile is stored
C8_Witness ==
  /\ lastRes.user = NoUser /\ lastRes.invoked
  /\ \E s \in Subs : lastSeq[s] > 0 /\ last[s] = Null
  /\ \E u \in Uids : userProfiles[u] # NoDoc

\* the SessionEvent reflects the identity cur
Reflects(event, cur) ==
  IF cur = NoUser THEN event = Null ELSE event.id = cur.uid

\* C9: the subscribe call itself invokes no handler, and the invocation the
\* initial notification leads to reflects the identity that is current when
\* the handler is invoked.
C9_InitialEmission ==
  [][/\ \A s \in Subs :
          (subState[s] = "new" /\ subState'[s] = "active") => ~Delivery
     /\ (Delivery /\ lastRes'.initial)
          => \A s \in Subs :
               Invoked(s) => Reflects(last'[s], currentUser')]_vars

\* a step that answers a webhook request
Answered == whCount' # whCount

\* C10: an unverified request and a verified 'checkout completed' event
\* without client_reference_id are answered 400 and modify no profile; a
\* verified 'checkout completed' event with a client_reference_id is answered
\* 200 after one update that sets only plan to pro on that profile, or 500
\* with no profile modified; a verified event of another type modifies no
\* profile; and a plan becomes pro only in a step that answers a verified
\* 'checkout completed' event naming that profile.
C10_Webhook ==
  [][/\ Answered =>
          LET r == resp'
              completed == r.type = "checkout.session.completed"
          IN  /\ ~r.verified
                   => r.status = 400 /\ userProfiles' = userProfiles
              /\ (r.verified /\ completed /\ r.ref = 0)
                   => r.status = 400 /\ userProfiles' = userProfiles
              /\ (r.verified /\ completed /\ r.ref # 0)
                   => /\ r.status \in {200, 500}
                      /\ r.status = 200 =>
                           /\ userProfiles[r.ref] # NoDoc
                           /\ userProfiles' =
                                [userProfiles EXCEPT ![r.ref].plan = "pro"]
                      /\ r.status = 500 => userProfiles' = userProfiles
              /\ (r.verified /\ ~completed)
                   => r.status = 200 /\ userProfiles' = userProfiles
     /\ \A u \in Uids :
          (userProfiles[u].plan # "pro" /\ userProfiles'[u].plan = "pro")
          => /\ Answered
             /\ resp'.verified
             /\ resp'.type = "checkout.session.completed"
             /\ resp'.ref = u]_vars

\* a verified 'checkout completed' event has been answered 200 and the
\* profile it names is pro
C10_Witness ==
  /\ resp.verified /\ resp.type = "checkout.session.completed"
  /\ resp.status = 200 /\ resp.ref # 0
  /\ userProfiles[resp.ref].plan = "pro"

\* a call of saveAllDreamsForUser ended
BulkReplace == storeOp' # storeOp /\ storeOp'.kind = "saveAll"

\* C11: batch atomicity of saveAllDreamsForUser.  For every user, prior
\* collection and batch, what getDreamsForUser returns once the bulk replace
\* has run is either all the entries of the batch or exactly the prior
\* entries, never a mixture of prior and new entries and never a part of the
\* batch.
C11_BatchAtomicity ==
  [][BulkReplace =>
       LET u == storeOp'.user
       IN  \/ Range(SortDesc(dreams'[u])) = Range(storeOp'.batch)
           \/ SortDesc(dreams'[u]) = SortDesc(dreams[u])]_vars

\* a call of addChatMessageToDream ended
PartialUpdate == storeOp' # storeOp /\ storeOp'.kind = "update"

\* C16: partial update by addChatMessageToDream.  When the dream exists only
\* its chatHistory changes: its other fields, the other dreams and the other
\* users' dreams stay as they were, and an update that is applied leaves the
\* chatHistory passed.  When the dream does not exist the call reports no
\* error, creates nothing and leaves the store unchanged.
C16_PartialUpdate ==
  [][PartialUpdate =>
       LET u == storeOp'.user
           id == storeOp'.id
           old == dreams[u]
           new == dreams'[u]
       IN  /\ \A v \in DreamUsers \ {u} : dreams'[v] = dreams[v]
           /\ Len(new) = Len(old)
           /\ \A i \in 1..Len(old) :
                IF old[i].id = id
                  THEN /\ new[i] = [old[i] EXCEPT
                                     !.chatHistory = new[i].chatHistory]
                       /\ ~storeOp'.error
                            => new[i].chatHistory = storeOp'.chat
                  ELSE new[i] = old[i]
           /\ Index(old, id) = {} => ~storeOp'.error /\ dreams' = dreams]_vars

\* calls of saveDreamForUser and getDreamsForUser that succeeded
Saved == storeOp' # storeOp /\ storeOp'.kind = "save" /\ ~storeOp'.error
Listed == storeOp' # storeOp /\ storeOp'.kind = "list" /\ ~storeOp'.error

\* a save for user u puts the dream in u's collection in place of the entry
\* of the same id, keeps u's other entries and leaves the other users alone
SavedInPlace ==
  Saved =>
    LET u == storeOp'.user
        d == storeOp'.batch[1]
    IN  /\ Range(dreams'[u]) =
             {e \in Range(dreams[u]) : e.id # d.id} \cup {d}
        /\ \A v \in DreamUsers \ {u} : dreams'[v] = dreams[v]

\* a listing for user u holds exactly the entries of u's collection, one per
\* dream id, newest first
ListedInOrder ==
  Listed =>
    LET r == storeOp'.result
    IN  /\ Range(r) = Range(dreams[storeOp'.user])
        /\ \A i, j \in 1..Len(r) :
             i < j => /\ r[i].id # r[j].id
                      /\ r[i].timestamp >= r[j].timestamp

\* C17: listing dreams.  After any sequence of saveDreamForUser calls,
\* getDreamsForUser(u) returns exactly the dreams saved for u, one per dream
\* id holding the value saved last (a save with an existing id replaces that
\* entry in full), none of another user, in non-increasing timestamp order.
C17_Listing == [][SavedInPlace /\ ListedInOrder]_vars

\* a listing of two dreams that the store holds in the other order, beside
\* another user's dreams
C17_Witness ==
  /\ storeOp.kind = "list" /\ ~storeOp.error
  /\ Len(storeOp.result) = 2
  /\ storeOp.result[1].timestamp > storeOp.result[2].timestamp
  /\ storeOp.result # dreams[storeOp.user]
  /\ \E v \in DreamUsers \ {storeOp.user} : dreams[v] # <<>>

\* C18: profile round trip.  A get of document id that succeeds after a set
\* of that id, with no later write to that id, returns an existing document
\* equal to the profile set, whatever was written to other ids in between.
C18_RoundTrip ==
  storeOp.kind = "get" /\ ~storeOp.error /\ written[storeOp.user] # NoDoc
    => storeOp.exists /\ storeOp.doc = written[storeOp.user]

\* a get that returns the profile set under an id other than the one the
\* profile carries, after another id was written with another profile
C18_Witness ==
  /\ storeOp.kind = "get" /\ storeOp.exists
  /\ storeOp.doc = written[storeOp.user]
  /\ storeOp.doc.id # storeOp.user
  /\ \E id \in Uids \ {storeOp.user} :
       written[id] # NoDoc /\ written[id] # storeOp.doc

\* handleSubmit was called with both fields filled and made its call
Submitted == formOp' # formOp /\ formOp'.state \in {"waiting", "rejected"}

\* handleSubmit ran through finally
Completed == formOp' # formOp /\ formOp'.state \in {"done", "failed"}

\* the signUp and logIn calls suspended in q
Calls(q) == {i \in 1..Len(q) : q[i].kind \in {"signUp", "logIn"}}

\* the call made is the one of the mode, and a call that started is the only
\* one started
OneCallByMode ==
  Submitted =>
    /\ formOp'.invoked =
         IF form.mode = "login" THEN {"logIn"} ELSE {"signUp"}
    /\ formOp'.state = "waiting" =>
         /\ lastOp'.kind \in formOp'.invoked
         /\ lastOp'.seq = formOp'.seq
         /\ Cardinality(Calls(pending')) = Cardinality(Calls(pending)) + 1

\* loading is cleared, and a failed call leaves a message
LoadingCleared ==
  Completed =>
    /\ ~form'.isLoading
    /\ formOp'.state = "failed" =>
         form'.error = formOp'.shown /\ form'.error \notin {"null", ""}

\* C12: Auth Form submit.  A submission with both fields filled invokes
\* exactly one of signUp and logIn, the one of the mode at submission; when
\* the call fails an error message is set; when the call has completed, with
\* success or failure, the loading flag is false.
C12_Submit == [][OneCallByMode /\ LoadingCleared]_vars

\* a sign-up that started, failed at the store and left its message
C12_Witness ==
  /\ formOp.state = "failed" /\ formOp.mode = "signup"
  /\ formOp.invoked = {"signUp"} /\ formOp.seq > 0
  /\ form.error = formOp.shown /\ ~form.isLoading

\* the message the error mapping is to give
Mapped(code) ==
  IF code \in {"auth/user-not-found", "auth/wrong-password"}
    THEN "Invalid email or password."
  ELSE IF code = "auth/email-already-in-use"
    THEN "An account with this email already exists."
  ELSE IF code = "auth/weak-password"
    THEN "Password should be at least 6 characters."
  ELSE "An unexpected error occurred."

\* C13: the error mapping of the Auth Form is total.  The four known codes
\* map to their messages and every other code maps to the one generic
\* message, whatever text the provider error carries.
C13_ErrorMapping ==
  formOp.state = "failed" => formOp.shown = Mapped(formOp.err.code)

\* what a rejected sign-in must leave alone
SessionState == <<currentUser, users, userProfiles, last, lastSeq, seq,
                  pending, dreams>>

\* logIn was called for an account that exists and the provider rejected the
\* credentials
WrongPassword ==
  /\ Submitted /\ formOp'.state = "rejected" /\ form.mode = "login"
  /\ \E u \in Uids : users[u].email = form.email
  /\ formOp'.err.code # "auth/network-request-failed"

\* handleSubmit caught the rejection of a wrong password
CaughtWrongPassword ==
  /\ formOp.state = "rejected" /\ formOp'.state = "failed"
  /\ formOp.mode = "login" /\ formOp.err.code = "auth/wrong-password"

\* C14: a failed sign-in changes no session.  A logIn with a wrong password
\* fails with code auth/wrong-password, the form shows 'Invalid email or
\* password.', and the current identity, the profiles and the SessionEvent
\* of every subscriber stay as they were: no listener is notified and
\* nothing is written.
C14_FailedSignIn ==
  [][/\ WrongPassword =>
          formOp'.err.code = "auth/wrong-password" /\ UNCHANGED SessionState
     /\ CaughtWrongPassword =>
          form'.error = "Invalid email or password." /\ UNCHANGED SessionState
    ]_vars

\* a wrong password tried while a subscriber holds the session of a signed-in
\* user
C14_Witness ==
  /\ formOp.state = "failed" /\ formOp.mode = "login"
  /\ formOp.err.code = "auth/wrong-password"
  /\ form.error = "Invalid email or password."
  /\ currentUser # NoUser
  /\ \E s \in Subs : last[s] # NotYet /\ last[s] # Null

\* handleSubmit was called while a field was empty
EmptySubmit ==
  /\ ~form.isLoading
  /\ form.email = "" \/ form.password = ""
  /\ \/ formOp' # formOp
     \/ /\ form'.error # form.error
        /\ form'.error = "Please enter both email and password."

\* C15: empty-field submission.  Neither signUp nor logIn is invoked and no
\* request is made, the error is the validation message, and mode, email,
\* password and the loading flag are unchanged.
C15_EmptySubmit ==
  [][EmptySubmit =>
       /\ form' = [form EXCEPT
                     !.error = "Please enter both email and password."]
       /\ formOp'.invoked = {}
       /\ UNCHANGED <<sessionVars, storeVars, checkoutVars>>]_vars

\* a sign-up submitted with an email and no password
C15_Witness ==
  /\ formOp.state = "invalid" /\ formOp.mode = "signup"
  /\ form.mode = "signup" /\ form.email # "" /\ form.password = ""
  /\ form.error = "Please enter both email and password."

\* C19: the error taxonomy of createStripeCheckoutSession.  A call without
\* an authenticated caller fails with 'unauthenticated' before any store
\* read or billing call; an authenticated call whose profile does not exist
\* fails with 'not-found' before any billing call; an authenticated call
\* whose profile exists fails with 'internal' while either price id is not
\* configured; only a call that hits none of these returns a session, and
\* the session carries the caller's id as correlation id.
C19_ErrorTaxonomy ==
  checkout.result # "none" =>
    /\ checkout.caller = 0 <=> checkout.result = "unauthenticated"
    /\ checkout.caller = 0 => checkout.reads = 0 /\ checkout.billing = 0
    /\ checkout.caller # 0 /\ checkout.read = "missing"
         => checkout.result = "not-found" /\ checkout.billing = 0
    /\ checkout.result = "not-found" => checkout.read = "missing"
    /\ checkout.caller # 0 /\ checkout.read = "found"
          /\ ~(checkout.regular /\ checkout.trial)
         => checkout.result = "internal"
    /\ checkout.result = "session"
         => /\ checkout.caller # 0 /\ checkout.read = "found"
            /\ checkout.regular /\ checkout.trial
            /\ checkout.ref = checkout.caller

\* a call that created the caller's billing customer and returned a session
\* while another user's profile exists
C19_Witness ==
  /\ checkout.result = "session" /\ checkout.ref = checkout.caller
  /\ checkout.billing = 2
  /\ \E u \in Uids \ {checkout.caller} : userProfiles[u] # NoDoc

\* a step of signUp or logIn
AuthStep == pending' # pending

\* C20: plan transitions belong to the billing webhook only.  In every
\* interleaving of signUp, logIn and webhook events a profile whose plan is
\* pro never goes back to free, and no step of signUp or logIn changes the
\* plan or the stripeCustomerId of a profile that exists.
C20_PlanTransitions ==
  [][\A u \in Uids :
       /\ userProfiles[u].plan = "pro" => userProfiles'[u].plan = "pro"
       /\ AuthStep /\ userProfiles[u] # NoDoc =>
            /\ userProfiles'[u].plan = userProfiles[u].plan
            /\ userProfiles'[u].stripeCustomerId =
                 userProfiles[u].stripeCustomerId]_vars

\* the errors createStripeCheckoutSession ends with
CheckoutErrors == {"unauthenticated", "not-found", "internal"}

\* C21: no side effects on a failed checkout request.  A
\* createStripeCheckoutSession call that ended with unauthenticated,
\* not-found or internal was given no new billing customer and applied no
\* update to the caller's profile.
C21_FailedCheckout ==
  checkout.result \in CheckoutErrors =>
    ~checkout.created /\ ~checkout.updated

\* the billing customers created for u
CustomersOf(list, u) == {i \in 1..Len(list) : list[i] = u}

\* the stripeCustomerId of u's profile is set
HasCustomer(u) ==
  userProfiles[u] # NoDoc /\ userProfiles[u].stripeCustomerId # "none"

\* no billing customer beyond the first is created for u in the step
AtMostOneCustomer(u) == Cardinality(CustomersOf(customers', u)) <= 1

\* a stripeCustomerId that is set stays as it is in the step
CustomerIdKept(u) ==
  HasCustomer(u) =>
    /\ userProfiles'[u] # NoDoc
    /\ userProfiles'[u].stripeCustomerId = userProfiles[u].stripeCustomerId

\* C22: at most one billing customer per user.  Over every interleaving of
\* createStripeCheckoutSession calls at most one billing customer is ever
\* created for a user, and a stripeCustomerId that is set never changes.
C22_OneCustomerPerUser ==
  [][\A u \in Uids : AtMostOneCustomer(u) /\ CustomerIdKept(u)]_vars
====
